---- MODULE Spec2Model ----
(***************************************************************************)
(* A model of gpxplot's track geometry pipeline (src/online/gpxplot.py and *)
(* its older copy src/online/gpxutil.py): reduce_points,                   *)
(* eval_dist_velocity, google_ext_encode, google_ext_encode_data and       *)
(* google_chart_url.                                                       *)
(*                                                                         *)
(* Numbers.  Python floats are modelled exactly: a distance is an integer  *)
(* number of hundredths of a kilometre, a velocity and a rescaled chart    *)
(* value are rationals <<num, den>> in lowest terms, a timestamp is an     *)
(* integer number of seconds.  An optional value (None in Python) is the   *)
(* empty tuple, a present value x is <<x>>.                                *)
(***************************************************************************)
EXTENDS Integers, Sequences, FiniteSets

VARIABLES pc, trk, npoints, prev_npoints, prev_out, out, err, i, figure, chart,
          xy, url

vars == <<pc, trk, npoints, prev_npoints, prev_out, out, err, i, figure, chart,
          xy, url>>

(***************************************************************************)
(* Bounds of the model.                                                    *)
(***************************************************************************)
MaxPts == 3
MaxSegs == 2
\* The point budgets tried are -MaxN..MaxN and None.
MaxN == 4
\* The integers encoded are -MaxV..MaxV.
MaxV == 4200

(***************************************************************************)
(* The columns of a point that can be plotted.                             *)
(***************************************************************************)
var_time == 2
var_ele == 3
var_dist == 4
var_vel == 5

(***************************************************************************)
(* Python values.                                                          *)
(***************************************************************************)
None == <<>>

Some(x) == <<x>>

\* bool(x) of an optional float: None and 0.0 are false.
Truthy(o) == o # None /\ o[1] # 0

\* bool(x) of an optional datetime or int-or-None: only None is false
\* for a datetime.
TruthyTime(o) == o # None

Abs(x) == IF x < 0 THEN -x ELSE x

RECURSIVE Gcd(_, _)
Gcd(a, b) == IF b = 0 THEN a ELSE Gcd(b, a % b)

\* The rational n/d (d # 0) in lowest terms with a positive denominator.
Rat(n, d) ==
    LET g == Gcd(Abs(n), Abs(d))
        s == IF d < 0 THEN -1 ELSE 1
    IN  <<(s * n) \div g, (s * d) \div g>>

Zero == Rat(0, 1)

(***************************************************************************)
(* distance(p1, p2): the haversine formula on a sphere of radius R, in     *)
(* hundredths of a kilometre, tabulated on the grid of latitudes 0..1 and  *)
(* longitude differences 0..2 degrees (2*R*asin(sqrt(h)) rounded).         *)
(***************************************************************************)
distance(p1, p2) ==
    LET dlon == Abs(p2[2] - p1[2])
        row  == CASE p1[1] = 0 /\ p2[1] = 0 -> <<0, 11119, 22239>>
                  [] p1[1] = 1 /\ p2[1] = 1 -> <<0, 11118, 22236>>
                  [] OTHER                  -> <<11119, 15725, 24863>>
    IN  row[dlon + 1]

(***************************************************************************)
(* Inputs.                                                                 *)
(***************************************************************************)
SeqsUpTo(S, n) == UNION {[1..k -> S] : k \in 0..n}

RECURSIVE Sum(_)
\* sum(l): the sum of the first half and of the second half.
Sum(l) ==
    IF l = <<>> THEN 0
    ELSE IF Len(l) = 1 THEN l[1]
    ELSE LET h == Len(l) \div 2
         IN  Sum(SubSeq(l, 1, h)) + Sum(SubSeq(l, h + 1, Len(l)))

\* The segment lengths of the tracks of n points: at most MaxSegs segments,
\* empty ones among them.
Shapes(n) == {l \in SeqsUpTo(0..n, MaxSegs) : Sum(l) = n}

RECURSIVE Split(_, _)
\* The points flat cut into segments of the lengths lens.
Split(flat, lens) ==
    IF lens = <<>> THEN <<>>
    ELSE <<SubSeq(flat, 1, Head(lens))>>
             \o Split(SubSeq(flat, Head(lens) + 1, Len(flat)), Tail(lens))

\* t is a track of at most MaxPts points drawn from P.
IsTrackOf(t, P) ==
    \E n \in 0..MaxPts : \E flat \in [1..n -> P] : \E lens \in Shapes(n) :
        t = Split(flat, lens)

\* [lat, lon, time, ele] as read_all_segments appends them.
Pt(lat, lon, time, ele) == [lat |-> lat, lon |-> lon, time |-> time, ele |-> ele]

\* for seg in trk if len(seg) > 0
NonEmptySegs(t) == SelectSeq(t, LAMBDA seg : Len(seg) > 0)

RECURSIVE FlatPoints(_)
\* The points of a track in traversal order.
FlatPoints(t) == IF t = <<>> THEN <<>> ELSE Head(t) \o FlatPoints(Tail(t))

KinPositions == {<<0, 0>>, <<0, 1>>, <<0, 2>>, <<1, 1>>}

\* One instant, and the instant one day and ten seconds after it.
KinTimes == {None, Some(1000), Some(87410)}

KinPoints == {Pt(p[1], p[2], t, 0) : p \in KinPositions, t \in KinTimes}

(***************************************************************************)
(* read_all_segments of src/online/gpxplot.py.  What the XML holds is      *)
(* text: a number is the sequence of its decimal digits, a time stamp is   *)
(* <<seconds>> or <<seconds, fraction>> as in '...T00:16:40Z' and          *)
(* '...T00:17:40.5Z', the text of an empty element is <<>>, and findtext   *)
(* of an element that is not there is None.                                *)
(***************************************************************************)
RECURSIVE Float(_)
\* float(text) of a decimal numeral.
Float(digits) ==
    IF digits = <<>> THEN 0
    ELSE 10 * Float(SubSeq(digits, 1, Len(digits) - 1)) + digits[Len(digits)]

\* bool(x) of findtext's result: None and '' are false.
TruthyText(o) == o # None /\ o[1] # <<>>

\* sub(r'\.\d+Z$','Z',time) drops the fraction, strptime reads the rest.
prettify_time(time) == Some(time[1])

\* <trkpt lat= lon=> with its <time> and <ele> children.
RawPt(lat, lon, time, ele) == [lat |-> lat, lon |-> lon, time |-> time, ele |-> ele]

\* The body of the loop over trkpts: the point appended, and prev_ele and
\* prev_time after it.
ReadPoint(pt, prev_ele, prev_time) ==
    LET has_time  == TruthyText(pt.time)
        prev_time2 == IF has_time THEN pt.time ELSE prev_time
        time      == IF has_time THEN prettify_time(pt.time[1])
                     ELSE IF TruthyText(prev_time) THEN prettify_time(prev_time[1])
                     ELSE pt.time
        has_ele   == TruthyText(pt.ele)
        ele       == IF has_ele THEN Float(pt.ele[1]) ELSE prev_ele
    IN  [pt |-> Pt(Float(pt.lat), Float(pt.lon), time, ele),
         prev_ele |-> ele, prev_time |-> prev_time2]

RECURSIVE ReadSeg(_, _, _)
\* for pt in trkpts: the loop over the first half of the points, then the
\* loop over the second half with prev_ele and prev_time as the first left
\* them.
ReadSeg(seg, prev_ele, prev_time) ==
    IF seg = <<>> THEN [s |-> <<>>, prev_ele |-> prev_ele, prev_time |-> prev_time]
    ELSE IF Len(seg) = 1
    THEN LET p == ReadPoint(seg[1], prev_ele, prev_time)
         IN  [s |-> <<p.pt>>, prev_ele |-> p.prev_ele, prev_time |-> p.prev_time]
    ELSE LET h     == Len(seg) \div 2
             left  == ReadSeg(SubSeq(seg, 1, h), prev_ele, prev_time)
             right == ReadSeg(SubSeq(seg, h + 1, Len(seg)),
                              left.prev_ele, left.prev_time)
         IN  [s |-> left.s \o right.s,
              prev_ele |-> right.prev_ele, prev_time |-> right.prev_time]

RECURSIVE ReadTrkCarry(_, _, _)
\* prev_ele,prev_time=0.0,None set once, before the loop over the segments.
ReadTrkCarry(t, prev_ele, prev_time) ==
    IF t = <<>> THEN <<>>
    ELSE LET r == ReadSeg(Head(t), prev_ele, prev_time)
         IN  <<r.s>> \o ReadTrkCarry(Tail(t), r.prev_ele, r.prev_time)

read_all_segments_carry(t) == ReadTrkCarry(t, 0, None)

\* for seg in trksegs: prev_ele,prev_time=0.0,None for each of them.
read_all_segments(t) == [k \in 1..Len(t) |-> ReadSeg(t[k], 0, None).s]

\* The time stamps and elevations of the raw points.
RawTimes == {None, Some(<<1000>>), Some(<<1060, 5>>)}

RawEles == {None, Some(<<5>>), Some(<<3, 0>>)}

\* Every time stamp with every elevation at one place; at other places an
\* empty <ele/>, an elevation of 0 and a point with a time stamp only.
RawPoints ==
    {RawPt(<<1>>, <<1>>, t, e) : t \in RawTimes, e \in RawEles}
        \cup {RawPt(<<0>>, <<2>>, None, Some(<<>>)),
              RawPt(<<0>>, <<2>>, Some(<<1060, 5>>), Some(<<0>>)),
              RawPt(<<1>>, <<2>>, Some(<<1000>>), None)}

InitRead ==
    /\ pc = "read"
    /\ IsTrackOf(trk, RawPoints)
    /\ npoints = None
    /\ prev_npoints = None
    /\ prev_out = <<>>
    /\ out = <<>>
    /\ err = "none"
    /\ i = 0
    /\ figure = <<>>
    /\ chart = <<>>
    /\ xy = <<var_dist, var_ele>>
    /\ url = None

ReadAllSegments ==
    /\ pc = "read"
    /\ pc' = "normalized"
    /\ out' = read_all_segments(trk)
    /\ UNCHANGED <<trk, npoints, prev_npoints, prev_out, err, i, figure, chart, xy, url>>

NextRead == ReadAllSegments

SpecRead == InitRead /\ [][NextRead]_vars

(***************************************************************************)
(* eval_dist_velocity.  catch is TRUE for src/online/gpxplot.py, whose     *)
(* division is wrapped in try/except ZeroDivisionError, FALSE for          *)
(* src/online/gpxutil.py, whose division is not.                           *)
(***************************************************************************)
\* (time-prev_time).seconds: a timedelta is normalised to days, and
\* 0 <= seconds < 86400.
SecondsPerDay == 86400

timedelta_seconds(time, prev_time) == (time[1] - prev_time[1]) % SecondsPerDay

\* One point of the inner loop: the delta, the velocity, or the exception.
EvalPoint(catch, pt, prev_lat, prev_lon, prev_time) ==
    IF Truthy(prev_lat) /\ Truthy(prev_lon)
    THEN LET delta == distance(<<pt.lat, pt.lon>>, <<prev_lat[1], prev_lon[1]>>)
         IN  IF TruthyTime(pt.time) /\ TruthyTime(prev_time)
             THEN LET secs == timedelta_seconds(pt.time, prev_time)
                  IN  IF secs = 0
                      THEN [delta |-> delta, vel |-> Zero, raised |-> ~catch]
                      ELSE [delta |-> delta, vel |-> Rat(3600 * delta, secs),
                            raised |-> FALSE]
             ELSE [delta |-> delta, vel |-> Zero, raised |-> FALSE]
    ELSE [delta |-> 0, vel |-> Zero, raised |-> FALSE]

KPt(pt, dist, vel) ==
    [lat |-> pt.lat, lon |-> pt.lon, time |-> pt.time, ele |-> pt.ele,
     dist |-> dist, vel |-> vel]

RECURSIVE EvalSeg(_, _, _, _, _, _)
\* The inner loop over the points of one segment: the loop over the first
\* half, then the loop over the second half with prev_lat, prev_lon,
\* prev_time and dist as the first left them.
EvalSeg(catch, seg, prev_lat, prev_lon, prev_time, dist) ==
    IF seg = <<>> THEN [newseg |-> <<>>, dist |-> dist, raised |-> FALSE]
    ELSE IF Len(seg) = 1
    THEN LET pt == seg[1]
             r  == EvalPoint(catch, pt, prev_lat, prev_lon, prev_time)
         IN  IF r.raised
             THEN [newseg |-> <<>>, dist |-> dist, raised |-> TRUE]
             ELSE [newseg |-> <<KPt(pt, dist + r.delta, r.vel)>>,
                   dist |-> dist + r.delta, raised |-> FALSE]
    ELSE LET h    == Len(seg) \div 2
             left == EvalSeg(catch, SubSeq(seg, 1, h),
                             prev_lat, prev_lon, prev_time, dist)
         IN  IF left.raised
             THEN [newseg |-> <<>>, dist |-> dist, raised |-> TRUE]
             ELSE LET right == EvalSeg(catch, SubSeq(seg, h + 1, Len(seg)),
                                       Some(seg[h].lat), Some(seg[h].lon),
                                       seg[h].time, left.dist)
                  IN  [newseg |-> left.newseg \o right.newseg,
                       dist |-> right.dist, raised |-> right.raised]

RECURSIVE EvalTrkReset(_, _, _)
\* eval_dist_velocity with dist=0.0 moved inside the loop over the segments.
EvalTrkReset(catch, t, dist) ==
    IF t = <<>> THEN [newtrk |-> <<>>, raised |-> FALSE]
    ELSE IF Len(Head(t)) > 0
         THEN LET s == EvalSeg(catch, Head(t), None, None, None, 0)
              IN  IF s.raised THEN [newtrk |-> <<>>, raised |-> TRUE]
                  ELSE LET rest == EvalTrkReset(catch, Tail(t), 0)
                       IN  [newtrk |-> <<s.newseg>> \o rest.newtrk,
                            raised |-> rest.raised]
         ELSE EvalTrkReset(catch, Tail(t), 0)

RECURSIVE EvalTrkCarryFrom(_, _, _, _, _, _)
EvalTrkCarryFrom(catch, t, dist, prev_lat, prev_lon, prev_time) ==
    IF t = <<>> THEN [newtrk |-> <<>>, raised |-> FALSE]
    ELSE IF Len(Head(t)) > 0
         THEN LET seg  == Head(t)
                  last == seg[Len(seg)]
                  s    == EvalSeg(catch, seg, prev_lat, prev_lon, prev_time, dist)
              IN  IF s.raised THEN [newtrk |-> <<>>, raised |-> TRUE]
                  ELSE LET rest == EvalTrkCarryFrom(catch, Tail(t), s.dist,
                                       Some(last.lat), Some(last.lon), last.time)
                       IN  [newtrk |-> <<s.newseg>> \o rest.newtrk,
                            raised |-> rest.raised]
         ELSE EvalTrkCarryFrom(catch, Tail(t), dist, prev_lat, prev_lon, prev_time)

\* eval_dist_velocity with prev_lat, prev_lon, prev_time set to None once,
\* before the loop over the segments, and not at the start of each segment.
EvalTrkCarry(catch, t, dist) == EvalTrkCarryFrom(catch, t, dist, None, None, None)

RECURSIVE EvalTrk(_, _, _)
\* The outer loop over the segments, first half then second half; dist is
\* carried from one segment to the next.
EvalTrk(catch, t, dist) ==
    IF t = <<>> THEN [newtrk |-> <<>>, dist |-> dist, raised |-> FALSE]
    ELSE IF Len(t) = 1
    THEN IF Len(t[1]) > 0
         THEN LET s == EvalSeg(catch, t[1], None, None, None, dist)
              IN  IF s.raised
                  THEN [newtrk |-> <<>>, dist |-> dist, raised |-> TRUE]
                  ELSE [newtrk |-> <<s.newseg>>, dist |-> s.dist, raised |-> FALSE]
         ELSE [newtrk |-> <<>>, dist |-> dist, raised |-> FALSE]
    ELSE LET h    == Len(t) \div 2
             left == EvalTrk(catch, SubSeq(t, 1, h), dist)
         IN  IF left.raised
             THEN [newtrk |-> <<>>, dist |-> dist, raised |-> TRUE]
             ELSE LET right == EvalTrk(catch, SubSeq(t, h + 1, Len(t)), left.dist)
                  IN  [newtrk |-> left.newtrk \o right.newtrk,
                       dist |-> right.dist, raised |-> right.raised]

eval_dist_velocity(t) == EvalTrk(TRUE, t, 0)

gpxutil_eval_dist_velocity(t) == EvalTrk(FALSE, t, 0)

(***************************************************************************)
(* The kinematics evaluator, called on a normalised track.                 *)
(***************************************************************************)
InitKin ==
    /\ pc = "kin"
    /\ IsTrackOf(trk, KinPoints)
    /\ npoints = None
    /\ prev_npoints = None
    /\ prev_out = <<>>
    /\ out = <<>>
    /\ err = "none"
    /\ i = 0
    /\ figure = <<>>
    /\ chart = <<>>
    /\ xy = <<var_dist, var_ele>>
    /\ url = None

Return(r) ==
    /\ out' = (IF r.raised THEN <<>> ELSE r.newtrk)
    /\ err' = (IF r.raised THEN "ZeroDivisionError" ELSE "none")

\* src/online/gpxplot.py
EvalDistVelocity ==
    /\ pc = "kin"
    /\ pc' = "evaluated"
    /\ Return(eval_dist_velocity(trk))
    /\ UNCHANGED <<trk, npoints, prev_npoints, prev_out, i, figure, chart, xy, url>>

\* src/online/gpxutil.py
GpxutilEvalDistVelocity ==
    /\ pc = "kin"
    /\ pc' = "evaluated_gpxutil"
    /\ Return(gpxutil_eval_dist_velocity(trk))
    /\ UNCHANGED <<trk, npoints, prev_npoints, prev_out, i, figure, chart, xy, url>>

NextKin == EvalDistVelocity \/ GpxutilEvalDistVelocity

SpecKin == InitKin /\ [][NextKin]_vars

(***************************************************************************)
(* reduce_points (the same text in gpxplot.py and gpxutil.py).             *)
(***************************************************************************)
\* int(1.0*count/npoints)+1: one more than the floor, which is the ceiling
\* only when npoints does not divide count.
CeilDivFloorPlusOne(count, n) ==
    IF n > 0 THEN count \div n + 1 ELSE -(count \div (-n))

\* int(1.0*count/npoints): the floor.
CeilDivFloor(count, n) ==
    IF n > 0 THEN count \div n ELSE -(count \div (-n))

\* int(ceil(1.0*count/npoints)) for count >= 0 and npoints # 0.
CeilDiv(count, n) ==
    IF n > 0 THEN (count + n - 1) \div n ELSE -(count \div (-n))

\* npoints is None or an int; None and 0 are false.
Skip(count, n) == IF n # None /\ n[1] # 0 THEN CeilDiv(count, n[1]) ELSE 1

\* seg[:-1:skip] for a non-empty seg and skip # 0: with skip > 0 the
\* elements at the 0-based indices 0, skip, 2*skip, ... below len-1; with
\* skip < 0 the slice starts and stops at len-1 and is empty.
SliceButLast(seg, skip) ==
    IF skip > 0
    THEN [m \in 1..((Len(seg) - 1 + skip - 1) \div skip) |-> seg[(m - 1) * skip + 1]]
    ELSE <<>>

\* seg[::skip] for skip > 0, seg[:-1:skip] otherwise.
SliceAll(seg, skip) ==
    IF skip > 0
    THEN [m \in 1..((Len(seg) + skip - 1) \div skip) |-> seg[(m - 1) * skip + 1]]
    ELSE <<>>

\* newseg=seg[::skip]: the last point is not appended.
ReduceSegNoLast(seg, skip) == SliceAll(seg, skip)

\* newseg=seg[::skip]+[seg[-1]]: the slice is not stopped before the last
\* point.
ReduceSegTwiceLast(seg, skip) == SliceAll(seg, skip) \o <<seg[Len(seg)]>>

\* newseg=seg[:-1:skip]+[seg[-1]]
ReduceSeg(seg, skip) == SliceButLast(seg, skip) \o <<seg[Len(seg)]>>

\* The loop over the segments: each segment that has a point is reduced;
\* a slice step of 0 raises ValueError.
ReduceTrk(t, skip) ==
    LET segs == NonEmptySegs(t)
    IN  IF segs # <<>> /\ skip = 0
        THEN [newtrk |-> <<>>, raised |-> TRUE]
        ELSE [newtrk |-> [k \in 1..Len(segs) |-> ReduceSeg(segs[k], skip)],
              raised |-> FALSE]

Count(t) == Sum([k \in 1..Len(t) |-> Len(t[k])])

reduce_points(t, n) == ReduceTrk(t, Skip(Count(t), n))

\* The reducer takes its points as they are: three of them, apart in
\* longitude.
RedPoints == {Pt(1, l, None, 0) : l \in 0..2}

Budgets == {None} \cup {Some(n) : n \in -MaxN..MaxN}

InitReduce ==
    /\ pc = "reduce"
    /\ IsTrackOf(trk, RedPoints)
    /\ npoints \in Budgets
    /\ prev_npoints = None
    /\ prev_out = <<>>
    /\ out = <<>>
    /\ err = "none"
    /\ i = 0
    /\ figure = <<>>
    /\ chart = <<>>
    /\ xy = <<var_dist, var_ele>>
    /\ url = None

ReducePoints ==
    /\ pc = "reduce"
    /\ pc' = "reduced"
    /\ LET r == reduce_points(trk, npoints)
       IN  /\ out' = (IF r.raised THEN <<>> ELSE r.newtrk)
           /\ err' = (IF r.raised THEN "ValueError" ELSE "none")
    /\ UNCHANGED <<trk, npoints, prev_npoints, prev_out, i, figure, chart, xy, url>>

\* reduce_points called again, on the track it returned.
ReducePointsAgain ==
    /\ pc = "reduced"
    /\ err = "none"
    /\ pc' = "rereduced"
    /\ \E m \in Budgets :
          /\ npoints' = m
          /\ LET r == reduce_points(out, m)
             IN  /\ out' = (IF r.raised THEN <<>> ELSE r.newtrk)
                 /\ err' = (IF r.raised THEN "ValueError" ELSE "none")
    /\ prev_npoints' = npoints
    /\ prev_out' = out
    /\ UNCHANGED <<trk, i, figure, chart, xy, url>>

NextReduce == ReducePoints \/ ReducePointsAgain

SpecReduce == InitReduce /\ [][NextReduce]_vars

(***************************************************************************)
(* google_ext_encode (the same text in gpxplot.py and gpxutil.py).         *)
(***************************************************************************)
\* 'ABCDEFGHIJKLMNOPQRSTUVWXYZ' + its lower case + '0123456789-.'
enc ==
    <<"A", "B", "C", "D", "E", "F", "G", "H", "I", "J", "K", "L", "M", "N", "O", "P",
      "Q", "R", "S", "T", "U", "V", "W", "X", "Y", "Z", "a", "b", "c", "d", "e", "f",
      "g", "h", "i", "j", "k", "l", "m", "n", "o", "p", "q", "r", "s", "t", "u", "v",
      "w", "x", "y", "z", "0", "1", "2", "3", "4", "5", "6", "7", "8", "9", "-", ".">>

\* int(x) of a float x = <<num, den>>: rounded towards zero.
PyInt(x) == IF x[1] >= 0 THEN x[1] \div x[2] ELSE -((-x[1]) \div x[2])

\* i=abs(int(i))%4096: the remainder as C computes it for i >= 0 only.
google_ext_encode_abs(x) ==
    LET n == Abs(PyInt(x)) % 4096
    IN  <<enc[(n \div Len(enc)) + 1], enc[(n % Len(enc)) + 1]>>

\* The two characters of the figure, in order.  Python's % takes the sign
\* of the divisor: int(i)%4096 is in 0..4095.
google_ext_encode(x) ==
    LET n == PyInt(x) % 4096
    IN  <<enc[(n \div Len(enc)) + 1], enc[(n % Len(enc)) + 1]>>

InitEnc ==
    /\ pc = "encode"
    /\ i \in -MaxV..MaxV
    /\ trk = <<>>
    /\ npoints = None
    /\ prev_npoints = None
    /\ prev_out = <<>>
    /\ out = <<>>
    /\ err = "none"
    /\ figure = <<>>
    /\ chart = <<>>
    /\ xy = <<var_dist, var_ele>>
    /\ url = None

GoogleExtEncode ==
    /\ pc = "encode"
    /\ pc' = "encoded"
    /\ figure' = google_ext_encode(Rat(i, 1))
    /\ UNCHANGED <<trk, npoints, prev_npoints, prev_out, out, err, i, chart, xy, url>>

NextEnc == GoogleExtEncode

SpecEnc == InitEnc /\ [][NextEnc]_vars

(***************************************************************************)
(* google_chart_url and google_ext_encode_data, for x = var_dist,          *)
(* y = var_ele and metric units (mlpkm = fpm = 1.0).  guard is TRUE for    *)
(* src/online/gpxplot.py, which tests max != min before it divides, FALSE  *)
(* for src/online/gpxutil.py, which does not.                              *)
(***************************************************************************)
RECURSIVE Max(_)
\* max(l) of a list that is not empty: the larger of the maxima of its
\* two halves.
Max(l) ==
    IF Len(l) = 1 THEN l[1]
    ELSE LET h == Len(l) \div 2
             a == Max(SubSeq(l, 1, h))
             b == Max(SubSeq(l, h + 1, Len(l)))
         IN  IF a >= b THEN a ELSE b

RECURSIVE Min(_)
Min(l) ==
    IF Len(l) = 1 THEN l[1]
    ELSE LET h == Len(l) \div 2
             a == Min(SubSeq(l, 1, h))
             b == Min(SubSeq(l, h + 1, Len(l)))
         IN  IF a <= b THEN a ELSE b

\* (v-min)*4095/(max-min), the argument of google_ext_encode.
Rescaled(v, min, max) == Rat((v - min) * 4095, max - min)

\* xenc(v) or yenc(v): the figure, or ZeroDivisionError.
Encode1(guard, v, min, max) ==
    IF max # min
    THEN [figure |-> google_ext_encode(Rescaled(v, min, max)), raised |-> FALSE]
    ELSE IF guard THEN [figure |-> google_ext_encode(Rat(0, 1)), raised |-> FALSE]
    ELSE [figure |-> <<>>, raised |-> TRUE]

\* One segment of '&chd=e:': the x figures, ',', the y figures.
EncodeSeg(guard, seg, min_x, max_x, min_y, max_y) ==
    LET xs == [j \in 1..Len(seg) |-> Encode1(guard, seg[j].dist, min_x, max_x)]
        ys == [j \in 1..Len(seg) |-> Encode1(guard, seg[j].ele, min_y, max_y)]
    IN  [x |-> [j \in 1..Len(seg) |-> xs[j].figure],
         y |-> [j \in 1..Len(seg) |-> ys[j].figure],
         raised |-> \E j \in 1..Len(seg) : xs[j].raised \/ ys[j].raised]

google_ext_encode_data(guard, t, min_x, max_x, min_y, max_y) ==
    LET segs == [k \in 1..Len(NonEmptySegs(t)) |->
                    EncodeSeg(guard, NonEmptySegs(t)[k], min_x, max_x, min_y, max_y)]
    IN  [data |-> [k \in 1..Len(segs) |-> [x |-> segs[k].x, y |-> segs[k].y]],
         raised |-> \E k \in 1..Len(segs) : segs[k].raised]

\* The series of a track that has a point: min_x is 0, the others are the
\* extremes, over the non-empty segments, of the extremes of each segment.
ChartData(guard, t) ==
    LET segs  == NonEmptySegs(t)
        min_x == 0
        max_x == Max([k \in 1..Len(segs) |->
                        Max([j \in 1..Len(segs[k]) |-> segs[k][j].dist])])
        max_y == Max([k \in 1..Len(segs) |->
                        Max([j \in 1..Len(segs[k]) |-> segs[k][j].ele])])
        min_y == Min([k \in 1..Len(segs) |->
                        Min([j \in 1..Len(segs[k]) |-> segs[k][j].ele])])
    IN  [min_x |-> min_x, max_x |-> max_x, min_y |-> min_y, max_y |-> max_y,
         enc |-> google_ext_encode_data(guard, t, min_x, max_x, min_y, max_y)]

\* len(urlprefix)
UrlPrefixLen == 74

\* len(url) before the range and the data are appended, with 'km' and 'm'.
UrlHeadLen == 99

\* len('&chxr=0,0,|1,,'): the range without its three numbers.
RangeFixedLen == 14

\* len('&chd=e:')
DataPrefixLen == 7

MaxUrlLen == 2048

RECURSIVE Digits(_)
\* len('%s' % n) of an int n.
Digits(n) ==
    IF n < 0 THEN 1 + Digits(-n)
    ELSE IF n < 10 THEN 1 ELSE 1 + Digits(n \div 10)

\* len(range): int(max_x) is in kilometres, distances are in hundredths.
RangeLen(max_x, min_y, max_y) ==
    RangeFixedLen + Digits(PyInt(Rat(max_x, 100)))
        + Digits(PyInt(Rat(min_y, 1))) + Digits(PyInt(Rat(max_y, 1)))

\* len(data): per segment the x figures, ',' and the y figures, of two
\* characters each, and ',' between the segments.
DataLen(data) ==
    DataPrefixLen
        + Sum([k \in 1..Len(data) |-> 2 * Len(data[k].x) + 1 + 2 * Len(data[k].y)])
        + (IF Len(data) > 0 THEN Len(data) - 1 ELSE 0)

\* The pairs (x, y) asked for.
PlotPairs == {<<var_dist, var_ele>>, <<var_time, var_ele>>,
              <<var_dist, var_vel>>, <<var_ele, var_dist>>}

\* len(urlprefix+url+range+data), c being the series of the track.
UrlLen(c) ==
    UrlPrefixLen + UrlHeadLen + RangeLen(c.max_x, c.min_y, c.max_y)
        + DataLen(c.enc.data)

\* The end of google_chart_url, c being the series of the track: the
\* division by zero of the encoder, OverflowError for a URL of more than
\* 2048 characters, or the URL.
UrlOrOverflow(c) ==
    IF c.enc.raised
    THEN [url |-> None, err |-> "ZeroDivisionError", data |-> <<>>]
    ELSE IF UrlLen(c) > MaxUrlLen
    THEN [url |-> None, err |-> "OverflowError", data |-> c.enc.data]
    ELSE [url |-> Some(UrlLen(c)), err |-> "none", data |-> c.enc.data]

\* google_chart_url(trk, x, y, metric=True): the length of the URL returned
\* (None when nothing is returned), the exception raised and the data
\* series.  A track without a point raises ValueError: gpxplot.py tests for
\* it, in gpxutil.py max() of an empty list does.
google_chart_url(guard, t, x, y) ==
    IF x # var_dist \/ y # var_ele
    THEN [url |-> None, err |-> "none", data |-> <<>>]
    ELSE IF NonEmptySegs(t) = <<>>
    THEN [url |-> None, err |-> "ValueError", data |-> <<>>]
    ELSE UrlOrOverflow(ChartData(guard, t))

\* Places and elevations (metres) of the charted tracks.
ChartPositions == {<<0, 0>>, <<1, 1>>, <<0, 1>>}

ChartElevations == {-5, 0, 30}

ChartPoints == {Pt(p[1], p[2], None, e) : p \in ChartPositions, e \in ChartElevations}

InitChart ==
    /\ pc = "kin"
    /\ IsTrackOf(trk, ChartPoints)
    /\ npoints = None
    /\ prev_npoints = None
    /\ prev_out = <<>>
    /\ out = <<>>
    /\ err = "none"
    /\ i = 0
    /\ figure = <<>>
    /\ chart = <<>>
    /\ xy = <<var_dist, var_ele>>
    /\ url = None

\* A call of google_chart_url of either copy with the track evaluated: a
\* pair other than (distance, elevation) prints a message and returns.
ChartUrl(guard, done) ==
    /\ pc = "evaluated"
    /\ \E p \in PlotPairs : \E r \in {google_chart_url(guard, out, p[1], p[2])} :
          /\ xy' = p
          /\ pc' = (IF p = <<var_dist, var_ele>> THEN done ELSE "printed")
          /\ chart' = r.data
          /\ err' = r.err
          /\ url' = r.url
    /\ UNCHANGED <<trk, npoints, prev_npoints, prev_out, out, i, figure>>

\* src/online/gpxplot.py
GoogleChartUrl == ChartUrl(TRUE, "charted")

\* src/online/gpxutil.py
GpxutilGoogleChartUrl == ChartUrl(FALSE, "charted_gpxutil")

NextChart == EvalDistVelocity \/ GoogleChartUrl \/ GpxutilGoogleChartUrl

SpecChart == InitChart /\ [][NextChart]_vars

(***************************************************************************)
(* parse_gpx_data of src/online/gpxplot.py and the loop of plot_on_request *)
(* of src/online/index.py, which starts at 700 points and asks for 100     *)
(* fewer each time google_chart_url raises OverflowError.                  *)
(***************************************************************************)
\* read_all_segments, reduce_points, eval_dist_velocity: the track, or the
\* ValueError of a slice step of 0.
parse_gpx_data(gpxdata, n) ==
    LET r == reduce_points(read_all_segments(gpxdata), n)
    IN  IF r.raised THEN [trk |-> <<>>, err |-> "ValueError"]
        ELSE [trk |-> eval_dist_velocity(r.newtrk).newtrk, err |-> "none"]

\* npoints=700
StartBudget == 700

\* npoints -= 100
BudgetStep == 100

\* The budget is left as it was.
NextBudgetSame(n) == n

\* npoints += 100
NextBudgetUp(n) == n + BudgetStep

NextBudget(n) == n - BudgetStep

\* The body of the try after parse_gpx_data has returned t: the exception
\* raised if there is one, the data series and the URL.  max() of an empty
\* list raises ValueError; elevations that are all 0 raise NoAltitudeData.
\* (parse_gpx_data raises no ValueError of its own here: with a budget
\* above 0 the slice step is 0 only for a track without a point.)
PlotParsed(t) ==
    IF NonEmptySegs(t) = <<>>
    THEN [url |-> None, err |-> "ValueError", data |-> <<>>]
    ELSE IF /\ Max([k \in 1..Len(NonEmptySegs(t)) |->
                      Max([j \in 1..Len(NonEmptySegs(t)[k]) |->
                              NonEmptySegs(t)[k][j].ele])]) = 0
            /\ Min([k \in 1..Len(NonEmptySegs(t)) |->
                      Min([j \in 1..Len(NonEmptySegs(t)[k]) |->
                              NonEmptySegs(t)[k][j].ele])]) = 0
    THEN [url |-> None, err |-> "NoAltitudeData", data |-> <<>>]
    ELSE google_chart_url(TRUE, t, var_dist, var_ele)

\* A GPX file of segs segments of len points each.  The points of a segment
\* are one second apart, every third without <time>; the first half of the
\* segment is at one place and the second half at another in the first
\* thirty segments; the elevations run over 0..49 with every fourth <ele>
\* missing, or all are missing if the file has no altitude data.
GpxData(segs, len, altitude) ==
    [k \in 1..segs |->
        [j \in 1..len |->
            RawPt(<<1>>,
                  IF 2 * j > len /\ k <= 30 THEN <<2>> ELSE <<1>>,
                  IF j % 3 = 0 THEN None ELSE Some(<<1000 + j>>),
                  IF altitude /\ j % 4 # 0
                  THEN Some(<<(j + k) % 5, j % 10>>) ELSE None)]]

\* Files of up to thirty segments of up to a hundred points, and files of
\* 190 segments, which fit in no URL.
GpxShapes ==
    {<<segs, len>> : segs \in {0, 1, 5, 12, 20, 24, 30},
                     len \in {1, 2, 30, 62, 97, 100}}
        \cup {<<190, 2>>, <<190, 3>>}

InitPlot ==
    /\ pc = "plot"
    /\ \E s \in GpxShapes : \E altitude \in BOOLEAN :
          trk = GpxData(s[1], s[2], altitude)
    /\ npoints = Some(StartBudget)
    /\ prev_npoints = None
    /\ prev_out = <<>>
    /\ out = <<>>
    /\ err = "none"
    /\ i = 0
    /\ figure = <<>>
    /\ chart = <<>>
    /\ xy = <<var_dist, var_ele>>
    /\ url = None

\* One turn of `while not url`: the try, and the except clause if
\* OverflowError was raised.  prev_npoints is the budget of the turn.
PlotOnRequest ==
    /\ pc = "plot"
    /\ \E t \in {parse_gpx_data(trk, npoints).trk} : \E r \in {PlotParsed(t)} :
          /\ out' = t
          /\ chart' = r.data
          /\ url' = r.url
          /\ err' = r.err
          /\ npoints' = (IF r.err = "OverflowError"
                         THEN Some(NextBudget(npoints[1])) ELSE npoints)
          /\ pc' = (IF r.err = "none" THEN "returned"
                    ELSE IF r.err = "OverflowError" /\ NextBudget(npoints[1]) > 0
                    THEN "plot" ELSE "raised")
    /\ prev_npoints' = npoints
    /\ UNCHANGED <<trk, prev_out, i, figure, xy>>

NextPlot == PlotOnRequest

SpecPlot == InitPlot /\ [][NextPlot]_vars

(***************************************************************************)
(* What the specification says of the kinematics evaluator, computed from  *)
(* its words and not from the code.                                        *)
(***************************************************************************)
Evaluated == pc \in {"evaluated", "evaluated_gpxutil"}

RECURSIVE SegRunningSums(_, _, _)
\* The running sums over one segment: the first point (j = 1) adds 0, every
\* other point adds its Geo-Distance to the point before it.
SegRunningSums(seg, j, total) ==
    IF j > Len(seg) THEN <<>>
    ELSE LET delta == IF j = 1 THEN 0
                      ELSE distance(<<seg[j].lat, seg[j].lon>>,
                                    <<seg[j - 1].lat, seg[j - 1].lon>>)
         IN  <<total + delta>> \o SegRunningSums(seg, j + 1, total + delta)

RECURSIVE RunningSums(_, _)
RunningSums(t, total) ==
    IF t = <<>> THEN <<>>
    ELSE LET sums == SegRunningSums(Head(t), 1, total)
         IN  sums \o RunningSums(Tail(t),
                                 IF sums = <<>> THEN total ELSE sums[Len(sums)])

Dists(t) == [n \in 1..Len(FlatPoints(t)) |-> FlatPoints(t)[n].dist]

Shape(t) == [k \in 1..Len(t) |-> Len(t[k])]

Pos(pt) == <<pt.lat, pt.lon>>

\* C1: every point that is not the first of its segment gets the delta
\* Geo-Distance(point[i], point[i-1]), latitudes and longitudes of 0
\* included, and the cumulative distances are the running sums of those
\* deltas.
C1_RunningSumOfDeltas ==
    pc = "evaluated" => Dists(out) = RunningSums(trk, 0)

\* C2: on a track [[A,B],[C]] the cumulative distance stored on C is
\* dist(A,B) + dist(B,C).  Stated for the tracks whose A has a non-zero
\* latitude and longitude, where the first segment does add dist(A,B).
C2_BoundaryAddsDistance ==
    (pc = "evaluated" /\ Shape(trk) = <<2, 1>>
        /\ trk[1][1].lat # 0 /\ trk[1][1].lon # 0)
        => out[2][1].dist = distance(Pos(trk[1][1]), Pos(trk[1][2]))
                             + distance(Pos(trk[1][2]), Pos(trk[2][1]))

\* C2 as amended: on a track [[A,B],[C]] the cumulative distance stored on C
\* is the cumulative distance stored on B: the step from B to C adds nothing.
C2_BoundaryAddsNothing ==
    (pc = "evaluated" /\ Shape(trk) = <<2, 1>>)
        => out[2][1].dist = out[1][2].dist

\* [[A,B],[C]] evaluated, with B at a distance from A and C at a distance
\* from B.
C2_Witness ==
    /\ pc = "evaluated"
    /\ Shape(trk) = <<2, 1>>
    /\ out[1][2].dist > 0
    /\ distance(Pos(trk[1][2]), Pos(trk[2][1])) > 0

\* C3: in traversal order the cumulative distance never decreases and is
\* not reset at a segment boundary (the first point of a segment carries the
\* cumulative distance of the last point of the segment before it, the
\* first point of the track carries 0), and the first point of every
\* segment has velocity 0.
C3_NeverResetAcrossSegments ==
    (Evaluated /\ err = "none") =>
        \A k \in 1..Len(out) :
            /\ out[k][1].vel = Zero
            /\ out[k][1].dist = (IF k = 1 THEN 0
                                 ELSE out[k - 1][Len(out[k - 1])].dist)
            /\ \A j \in 2..Len(out[k]) : out[k][j].dist >= out[k][j - 1].dist

\* A second segment that starts after a first one of non-zero length, at
\* another place than that segment's end.
C3_Witness ==
    /\ pc = "evaluated"
    /\ Len(out) = 2
    /\ out[1][Len(out[1])].dist > 0
    /\ Pos(out[2][1]) # Pos(out[1][Len(out[1])])
    /\ out[2][1].dist = out[1][Len(out[1])].dist

\* The full elapsed time, in seconds, from the previous point to this one.
Elapsed(cur, prev) == cur.time[1] - prev.time[1]

\* C4: the evaluator never raises; a point whose elapsed time to the point
\* before it is 0 seconds, or where either timestamp is missing, gets
\* velocity 0; and every velocity is >= 0.
C4_NeverRaises ==
    Evaluated =>
        /\ err = "none"
        /\ \A k \in 1..Len(out) : \A j \in 1..Len(out[k]) :
               /\ out[k][j].vel[1] >= 0
               /\ (j > 1 /\ (\/ out[k][j].time = None
                              \/ out[k][j - 1].time = None
                              \/ Elapsed(out[k][j], out[k][j - 1]) = 0))
                      => out[k][j].vel = Zero

\* C5: for consecutive points of a segment with timestamps t1 # t2 the
\* velocity is 3600 * delta / (t2 - t1), t2 - t1 the full elapsed time.
C5_VelocityOverFullElapsedTime ==
    pc = "evaluated" =>
        \A k \in 1..Len(out) : \A j \in 2..Len(out[k]) :
            (/\ out[k][j].time # None
             /\ out[k][j - 1].time # None
             /\ Elapsed(out[k][j], out[k][j - 1]) # 0)
                => out[k][j].vel = Rat(3600 * (out[k][j].dist - out[k][j - 1].dist),
                                       Elapsed(out[k][j], out[k][j - 1]))

(***************************************************************************)
(* What the specification says of the point reducer.                       *)
(***************************************************************************)
RECURSIVE IsSubseq(_, _)
\* a is b with some of its elements left out.
IsSubseq(a, b) ==
    IF a = <<>> THEN TRUE
    ELSE IF b = <<>> THEN FALSE
    ELSE IF Head(a) = Head(b) THEN IsSubseq(Tail(a), Tail(b))
    ELSE IsSubseq(a, Tail(b))

\* C6: for N >= 1 reduce_points returns, for each non-empty segment in
\* input order, a segment that starts with the segment's first point, ends
\* with its last point, and is a subsequence of it.
C6_EndpointsKept ==
    (pc = "reduced" /\ npoints # None /\ npoints[1] >= 1) =>
        /\ err = "none"
        /\ Len(out) = Len(NonEmptySegs(trk))
        /\ \A k \in 1..Len(out) :
              LET seg == NonEmptySegs(trk)[k]
              IN  /\ out[k] # <<>>
                  /\ out[k][1] = seg[1]
                  /\ out[k][Len(out[k])] = seg[Len(seg)]
                  /\ Len(out[k]) <= Len(seg)
                  /\ IsSubseq(out[k], seg)

\* A segment of three different points reduced to its two ends.
C6_Witness ==
    /\ pc = "reduced"
    /\ npoints # None /\ npoints[1] >= 1
    /\ \E k \in 1..Len(out) :
          /\ Len(NonEmptySegs(trk)[k]) = 3
          /\ Cardinality({NonEmptySegs(trk)[k][j] : j \in 1..3}) = 3
          /\ Len(out[k]) = 2

\* C7: with N <= 0 or N above the point count reduce_points raises nothing
\* and returns every non-empty segment whole.
C7_NoReduction ==
    (pc = "reduced" /\ npoints # None
        /\ (npoints[1] <= 0 \/ npoints[1] > Count(trk)))
        => (err = "none" /\ out = NonEmptySegs(trk))

\* C8: if T' = reduce_points(T, N) with N unspecified or N >= the point count
\* of T', then reduce_points(T', M) = T' for M = N and for every M > N.
C8_IdempotentAtStrideOne ==
    (/\ pc = "rereduced"
     /\ \/ prev_npoints = None /\ npoints = None
        \/ /\ prev_npoints # None /\ npoints # None
           /\ prev_npoints[1] >= Count(prev_out)
           /\ npoints[1] >= prev_npoints[1])
        => (err = "none" /\ out = prev_out)

\* A track that the first call did shorten, reduced again with a larger
\* budget.
C8_Witness ==
    /\ pc = "rereduced"
    /\ prev_npoints # None /\ npoints # None
    /\ Count(prev_out) < Count(trk)
    /\ Count(prev_out) >= 2
    /\ prev_npoints[1] >= Count(prev_out)
    /\ npoints[1] > prev_npoints[1]
    /\ out = prev_out

\* The least q with q * b >= a, for a >= 0 and b >= 1.
Ceiling(a, b) == CHOOSE q \in 0..a : q * b >= a /\ (q - 1) * b < a

\* C15: for N >= 1 the stride is ceil(C / N); each non-empty segment of
\* length L gives the points at the indices 0, stride, 2*stride, ... below
\* L-1 and then the point at L-1, which is ceil((L-1)/stride) + 1 points;
\* empty segments are dropped and the order of the segments is kept; with N
\* unspecified or C <= N the output is the input without its empty segments.
C15_StrideAndIndices ==
    (pc = "reduced" /\ (npoints = None \/ npoints[1] >= 1)) =>
        LET C      == Count(trk)
            stride == IF npoints = None THEN 1 ELSE Ceiling(C, npoints[1])
            segs   == NonEmptySegs(trk)
        IN  /\ err = "none"
            /\ Len(out) = Len(segs)
            /\ \A k \in 1..Len(segs) :
                  LET L == Len(segs[k])
                  IN  /\ Len(out[k]) = Ceiling(L - 1, stride) + 1
                      /\ \A m \in 1..(Len(out[k]) - 1) :
                            out[k][m] = segs[k][(m - 1) * stride + 1]
                      /\ out[k][Len(out[k])] = segs[k][L]
            /\ (npoints = None \/ C <= npoints[1]) => out = segs

\* Three points and an empty segment at N = 2: the stride is 2, the points
\* at the indices 0 and 2 are returned and the empty segment is not.
C15_Witness ==
    /\ pc = "reduced"
    /\ npoints = Some(2)
    /\ Count(trk) = 3
    /\ Len(trk) = 2
    /\ \E k \in 1..2 : trk[k] = <<>>
    /\ Len(out) = 1
    /\ Len(out[1]) = 2
    /\ out[1][1] # out[1][2]

(***************************************************************************)
(* What the specification says of read_all_segments.                       *)
(***************************************************************************)
\* The place of the last point among 1..j of seg whose field has text, or
\* 0 if there is none.
LastWith(seg, j, field(_)) ==
    LET S == {m \in 1..j : field(seg[m]) # None /\ field(seg[m])[1] # <<>>}
    IN  IF S = {} THEN 0 ELSE CHOOSE m \in S : \A n \in S : n <= m

\* C14: in the output of read_all_segments the elevation of a point is the
\* last elevation present among the points up to it in its own segment, or
\* 0.0; its time stamp is the last time stamp present among them, or absent;
\* nothing of an earlier segment is carried over; latitude, longitude, the
\* number of points and their order are those of the input.
C14_GapsFilledWithinSegment ==
    pc = "normalized" =>
        /\ Len(out) = Len(trk)
        /\ \A k \in 1..Len(trk) :
              /\ Len(out[k]) = Len(trk[k])
              /\ \A j \in 1..Len(trk[k]) :
                    LET e == LastWith(trk[k], j, LAMBDA p : p.ele)
                        t == LastWith(trk[k], j, LAMBDA p : p.time)
                    IN  /\ out[k][j].lat = Float(trk[k][j].lat)
                        /\ out[k][j].lon = Float(trk[k][j].lon)
                        /\ out[k][j].ele =
                              (IF e = 0 THEN 0 ELSE Float(trk[k][e].ele[1]))
                        /\ out[k][j].time =
                              (IF t = 0 THEN None ELSE Some(trk[k][t].time[1][1]))

\* A segment whose second point takes the elevation and the time stamp of
\* its first, followed by a segment whose first point has neither and
\* gets 0.0 and no time stamp.
C14_Witness ==
    /\ pc = "normalized"
    /\ Len(trk) = 2
    /\ Len(trk[1]) = 2
    /\ Len(trk[2]) = 1
    /\ trk[1][1].ele = Some(<<3, 0>>) /\ trk[1][1].time = Some(<<1060, 5>>)
    /\ trk[1][2].ele = None /\ trk[1][2].time = None
    /\ trk[2][1].ele = None /\ trk[2][1].time = None
    /\ out[1][2].ele = 30 /\ out[1][2].time = Some(1060)
    /\ out[2][1].ele = 0 /\ out[2][1].time = None

(***************************************************************************)
(* What the specification says of the chart encoder.                       *)
(***************************************************************************)
\* The place of a character in the alphabet, from 0.
AlphabetIndex(c) == (CHOOSE k \in 1..Len(enc) : enc[k] = c) - 1

Decode(fig) == AlphabetIndex(fig[1]) * 64 + AlphabetIndex(fig[2])

\* The figures of 0..4095.
Figures == {google_ext_encode(Rat(v, 1)) : v \in 0..4095}

\* C9: google_ext_encode(v) is two characters of the alphabet, the first
\* the one at (v mod 4096) div 64 and the second the one at (v mod 4096)
\* mod 64, for negative v too; decoding them gives v mod 4096, and the 4096
\* values 0..4095 have 4096 different figures.
C9_EncodeModulo4096 ==
    pc = "encoded" =>
        /\ Len(figure) = 2
        /\ \A k \in 1..2 : \E a \in 1..64 : figure[k] = enc[a]
        /\ AlphabetIndex(figure[1]) = (i % 4096) \div 64
        /\ AlphabetIndex(figure[2]) = (i % 4096) % 64
        /\ Decode(figure) = i % 4096
        /\ Cardinality(Figures) = 4096

\* A negative integer, encoded to the figure of its residue.
C9_Witness ==
    /\ pc = "encoded"
    /\ i < -4096
    /\ Decode(figure) = i + 8192

Charted == pc \in {"charted", "charted_gpxutil"}

AllFigures(series) ==
    UNION {{series[k][j] : j \in 1..Len(series[k])} : k \in 1..Len(series)}

\* C10: a series with min = max raises no division by zero and encodes
\* every value to "AA", the figure of 0; with min < max every rescaled value
\* handed to google_ext_encode is in 0..4095.
C10_DegenerateSeries ==
    (Charted /\ out # <<>>) =>
        LET c  == ChartData(TRUE, out)
            in_range(x) == x[1] >= 0 /\ x[1] <= 4095 * x[2]
        IN  /\ err # "ZeroDivisionError"
            /\ c.max_x = c.min_x =>
                  AllFigures([k \in 1..Len(chart) |-> chart[k].x]) = {<<"A", "A">>}
            /\ c.max_y = c.min_y =>
                  AllFigures([k \in 1..Len(chart) |-> chart[k].y]) = {<<"A", "A">>}
            /\ c.max_x # c.min_x =>
                  \A n \in 1..Len(FlatPoints(out)) :
                      in_range(Rescaled(FlatPoints(out)[n].dist, c.min_x, c.max_x))
            /\ c.max_y # c.min_y =>
                  \A n \in 1..Len(FlatPoints(out)) :
                      in_range(Rescaled(FlatPoints(out)[n].ele, c.min_y, c.max_y))

\* C13: a call of google_chart_url of src/online/gpxplot.py either returns
\* a URL of at most 2048 characters, for the pair (distance, elevation) and
\* a track that has a point, or raises an error; a pair that is not
\* supported, an empty track and a URL that is too long each raise one, and
\* no call returns without a URL.
C13_UrlOrError ==
    pc \in {"charted", "printed"} =>
        /\ \/ /\ err = "none"
              /\ url # None /\ url[1] <= MaxUrlLen
              /\ xy = <<var_dist, var_ele>>
              /\ out # <<>>
           \/ err # "none" /\ url = None
        /\ xy # <<var_dist, var_ele>> => err # "none"
        /\ out = <<>> => err = "ValueError" /\ chart = <<>>

(***************************************************************************)
(* What the specification says of the loop of plot_on_request.             *)
(***************************************************************************)
Finished == pc \in {"returned", "raised"}

\* What holds of every state of the loop.
C11_Outcome ==
    /\ \E m \in 0..(StartBudget \div BudgetStep) :
          npoints = Some(StartBudget - m * BudgetStep)
    /\ npoints[1] <= 0 => pc = "raised"
    /\ url # None => pc = "returned"
    /\ prev_npoints # None => out = parse_gpx_data(trk, prev_npoints).trk
    /\ (pc = "plot" /\ prev_npoints # None) =>
          /\ err = "OverflowError"
          /\ npoints[1] = prev_npoints[1] - BudgetStep
    /\ pc = "returned" =>
          /\ err = "none"
          /\ npoints = prev_npoints
          /\ url # None /\ url[1] <= MaxUrlLen
          /\ url = Some(UrlLen(ChartData(TRUE, out)))
    /\ (pc = "raised" /\ err = "OverflowError") => npoints[1] <= 0

\* What holds of every turn of the loop: it is the last, or it leaves a
\* smaller budget.
C11_Turn ==
    /\ pc = "plot"
    /\ prev_npoints' = npoints
    /\ Finished' \/ npoints'[1] < npoints[1]

\* C11: the loop ends: a turn is the last or leaves a smaller budget, and
\* the budgets are 700, 600, ..., 100, each 100 below the one before, so
\* there are at most 7 turns; every turn parses the original data; the loop
\* goes on only after a URL that was too long, and returns the first URL of
\* at most 2048 characters, whole; when the budget has reached 0 it raises,
\* and it returns no URL that is too long.
C11_RetryTerminates == []C11_Outcome /\ [][C11_Turn]_vars

\* A URL returned after two that were too long.
C11_Witness ==
    /\ pc = "returned"
    /\ url # None
    /\ npoints[1] <= StartBudget - 2 * BudgetStep

\* C12: the track of a URL returned at the budget B has at most B points.
C12_PointsWithinBudget ==
    pc = "returned" => Count(out) <= npoints[1]

\* C12, amended: the track of a URL returned at the budget B has fewer
\* than B + 2 * S points, S being the number of its segments.
C12_PointsWithinBudgetAndEnds ==
    pc = "returned" => Count(out) < npoints[1] + 2 * Len(out)

\* A URL returned with more points than its budget.
C12_Witness ==
    /\ pc = "returned"
    /\ npoints[1] < StartBudget
    /\ Count(out) > npoints[1]

\* C16: from one turn of the loop to the next, the budget being smaller,
\* the points of the reduced track, in all and in every segment, do not
\* become more, and the data series does not become longer.
C16_DataNeverGrows ==
    [][(pc = "plot" /\ prev_npoints # None) =>
          /\ npoints[1] < prev_npoints[1]
          /\ Count(out') <= Count(out)
          /\ Len(out') = Len(out)
          /\ \A k \in 1..Len(out) : Len(out'[k]) <= Len(out[k])
          /\ DataLen(chart') <= DataLen(chart)]_vars

\* The second turn of the loop has left fewer points than the first.
C16_Witness ==
    /\ prev_npoints = Some(StartBudget - BudgetStep)
    /\ out # <<>>
    /\ Count(out) < Count(parse_gpx_data(trk, Some(StartBudget)).trk)
    /\ DataLen(chart) < DataLen(google_chart_url(TRUE,
                            parse_gpx_data(trk, Some(StartBudget)).trk,
                            var_dist, var_ele).data)

====
